---------------------------- MODULE Spec2Model ----------------------------
(***************************************************************************)
(* Model of generate_graph.py: build_graph_and_subgraphs.                  *)
(*                                                                         *)
(* The decoded log (log_entries) is the input.  The function makes one     *)
(* pass over it for nodes, one pass for edges, and then one loop over      *)
(* file_nodes that extracts a subgraph per file node.  main_graph is a     *)
(* networkx DiGraph: a node is a key with one attribute dictionary (here   *)
(* its "type"), an edge is an ordered pair of nodes with one attribute     *)
(* dictionary (here its "syscall"); add_node / add_edge on a key that is   *)
(* already present update the attributes of the existing node / edge.      *)
(*                                                                         *)
(* A log entry is modelled by the fields the code reads from it.  Every    *)
(* entry carries exactly one datum key (or none the code knows).           *)
(***************************************************************************)
EXTENDS Naturals, Sequences, FiniteSets, TLC

VARIABLES log_entries, pc, i, nodes, edges, file_nodes, uuid2name,
          file_names, f, p, s, todo, file_subgraphs

vars == <<log_entries, pc, i, nodes, edges, file_nodes, uuid2name,
          file_names, f, p, s, todo, file_subgraphs>>

\* ------------------------------------------------------------------ bounds
\* longest log of arbitrary (also malformed) entries
MaxLen == 2
\* longest log of well-formed entries
MaxWellLen == 4
\* most events after the three declarations of a chain log
MaxEvents == 2

\* ------------------------------------------------------------------ values
Names == {"a", "b"}
Ids == {"u1", "u2"}
WellIds == {"u1", "u2", "u3"}
Syscalls == {"read", "write"}
ChainNames == <<"a", "b", "c">>
ChainIds == <<"u1", "u2", "u3">>

\* a key that is not in the dictionary, or a value that is falsy
Absent == "absent"
\* a key that is present with the JSON value null (Python None)
Null == "null"

FileTag == "FileObject"
SubjectTag == "Subject"
NetFlowTag == "NetFlowObject"
EventTag == "Event"
OtherTag == "Other"

\* ----------------------------------------------------------------- entries
Entry(tag, name, uuid, type, subject, predicateObject) ==
    [tag |-> tag, name |-> name, uuid |-> uuid, type |-> type,
     subject |-> subject, predicateObject |-> predicateObject]

FileObject(path, uuid) == Entry(FileTag, path, uuid, Absent, Absent, Absent)
Subject(uuid, name) == Entry(SubjectTag, name, uuid, Absent, Absent, Absent)
NetFlowObject(remoteAddress, uuid) ==
    Entry(NetFlowTag, remoteAddress, uuid, Absent, Absent, Absent)
Event(type, subject, predicateObject) ==
    Entry(EventTag, Absent, Absent, type, subject, predicateObject)
Other == Entry(OtherTag, Absent, Absent, Absent, Absent, Absent)

\* ------------------------------------------------------- dictionaries, graph
EmptyMap == [x \in {} |-> Absent]

Put(m, k, v) == [x \in (DOMAIN m) \cup {k} |-> IF x = k THEN v ELSE m[x]]

\* DiGraph.add_node(n, type=t): creates n, or updates the type of n
AddNode(g, n, t) == [g EXCEPT !.node = Put(g.node, n, t)]

\* DiGraph.add_edge(u, v, syscall=l): creates the endpoints that are missing
\* (without a type), then creates the edge u->v or updates its syscall
AddEdge(g, u, v, l) ==
    LET withU == IF u \in DOMAIN g.node THEN g.node ELSE Put(g.node, u, Absent)
        withV == IF v \in DOMAIN withU THEN withU ELSE Put(withU, v, Absent)
    IN  [node |-> withV, edge |-> Put(g.edge, <<u, v>>, l)]

Successors(g, n) == {m \in DOMAIN g.node : <<n, m>> \in DOMAIN g.edge}

RECURSIVE BfsFrom(_, _, _)
BfsFrom(g, visited, queue) ==
    IF queue = {} THEN visited
    ELSE LET next == (UNION {Successors(g, n) : n \in queue}) \ visited
         IN  BfsFrom(g, visited \cup next, next)

\* a search that stops after the first hop
DescendantsOneHop(g, source) == Successors(g, source) \ {source}

\* nx.descendants(G, source): the nodes a breadth-first search from source
\* reaches, source itself excluded
Descendants(g, source) == BfsFrom(g, {source}, {source}) \ {source}

\* a copy that loses the edges from a node to itself
SubgraphNoSelfLoops(g, nbunch) ==
    LET keep == {n \in DOMAIN g.node : n \in nbunch}
    IN  [node |-> [n \in keep |-> g.node[n]],
         edge |-> [e \in {d \in DOMAIN g.edge :
                             d[1] \in keep /\ d[2] \in keep /\ d[1] # d[2]}
                     |-> g.edge[e]]]

\* G.subgraph(nbunch).copy(): the nodes of nbunch with their attributes and
\* the edges of G between them with their attributes
Subgraph(g, nbunch) ==
    LET keep == {n \in DOMAIN g.node : n \in nbunch}
    IN  [node |-> [n \in keep |-> g.node[n]],
         edge |-> [e \in {d \in DOMAIN g.edge : d[1] \in keep /\ d[2] \in keep}
                     |-> g.edge[e]]]

\* ------------------------------------------------------------- the passes
\* The state the two passes work on.
Build0 ==
    [main_graph |-> [node |-> EmptyMap, edge |-> EmptyMap],
     file_nodes |-> {}, uuid2name |-> EmptyMap, file_names |-> {},
     f |-> 0, p |-> 0, s |-> 0]

\* One iteration of the loop "Process all entries for nodes".
NodeEntry(st, entry) ==
    CASE entry.tag = FileTag ->
           IF entry.name = Absent THEN st
           ELSE LET added == [st EXCEPT
                              !.main_graph = AddNode(@, entry.name, "file"),
                              !.file_nodes = @ \cup {entry.name}]
                IN  IF entry.uuid = Absent
                    THEN added  \* file_obj["uuid"] raises KeyError here
                    ELSE [added EXCEPT
                          !.uuid2name = Put(@, entry.uuid, entry.name),
                          !.file_names = @ \cup {entry.name},
                          !.f = @ + 1]
      [] entry.tag = SubjectTag ->
           IF entry.uuid = Absent \/ entry.name = Absent THEN st
           ELSE [st EXCEPT
                 !.main_graph = AddNode(@, entry.name, "process"),
                 !.uuid2name = Put(@, entry.uuid, entry.name),
                 !.p = @ + 1]
      [] entry.tag = NetFlowTag ->
           IF entry.name = Absent THEN st
           ELSE LET added == [st EXCEPT
                              !.main_graph = AddNode(@, entry.name, "socket")]
                IN  IF entry.uuid = Absent
                    THEN added  \* netflow_obj["uuid"] raises KeyError here
                    ELSE [added EXCEPT
                          !.uuid2name = Put(@, entry.uuid, entry.name),
                          !.s = @ + 1]
      [] OTHER -> st

\* an edge pass that looks identifiers up with a default (uuid2name.get(x, x))
\* instead of testing membership first
EdgeEntryLenient(st, entry) ==
    IF entry.tag # EventTag THEN st
    ELSE LET src == entry.subject
             tgt == entry.predicateObject
             name1 == IF src \in DOMAIN st.uuid2name THEN st.uuid2name[src] ELSE src
             name2 == IF tgt \in DOMAIN st.uuid2name THEN st.uuid2name[tgt] ELSE tgt
         IN  IF name2 \in st.file_names
             THEN [st EXCEPT !.main_graph = AddEdge(@, name2, name1, entry.type)]
             ELSE [st EXCEPT !.main_graph = AddEdge(@, name1, name2, entry.type)]

\* One iteration of the loop "Process all entries for edges".
EdgeEntry(st, entry) ==
    IF entry.tag # EventTag THEN st
    ELSE LET src == entry.subject
             tgt == entry.predicateObject
         IN  IF src \in DOMAIN st.uuid2name /\ tgt \in DOMAIN st.uuid2name
             THEN LET name1 == st.uuid2name[src]
                      name2 == st.uuid2name[tgt]
                  IN  IF name2 \in st.file_names
                      THEN [st EXCEPT !.main_graph =
                                AddEdge(@, name2, name1, entry.type)]
                      ELSE [st EXCEPT !.main_graph =
                                AddEdge(@, name1, name2, entry.type)]
             ELSE st

\* The body of the loop over file_nodes.
BehaviorOf(g, file_node) ==
    Subgraph(g, {file_node} \cup Descendants(g, file_node))

\* The two passes over a whole log, and what the function returns for it
\* together with the index: main_graph, uuid2name, file_subgraphs.
RECURSIVE NodesPass(_, _, _)
NodesPass(st, log, k) ==
    IF k > Len(log) THEN st ELSE NodesPass(NodeEntry(st, log[k]), log, k + 1)

RECURSIVE EdgesPass(_, _, _)
EdgesPass(st, log, k) ==
    IF k > Len(log) THEN st ELSE EdgesPass(EdgeEntry(st, log[k]), log, k + 1)

Outcome(log) ==
    LET st == EdgesPass(NodesPass(Build0, log, 1), log, 1)
    IN  [main_graph |-> st.main_graph,
         uuid2name |-> st.uuid2name,
         file_subgraphs |-> [n \in st.file_nodes |-> BehaviorOf(st.main_graph, n)]]

\* ------------------------------------------------------------ the machine
State ==
    [main_graph |-> [node |-> nodes, edge |-> edges],
     file_nodes |-> file_nodes, uuid2name |-> uuid2name,
     file_names |-> file_names, f |-> f, p |-> p, s |-> s]

Become(st) ==
    /\ nodes' = st.main_graph.node
    /\ edges' = st.main_graph.edge
    /\ file_nodes' = st.file_nodes
    /\ uuid2name' = st.uuid2name
    /\ file_names' = st.file_names
    /\ f' = st.f
    /\ p' = st.p
    /\ s' = st.s

Start(log) ==
    /\ log_entries = log
    /\ pc = "nodes"
    /\ i = 1
    /\ nodes = EmptyMap
    /\ edges = EmptyMap
    /\ file_nodes = {}
    /\ uuid2name = EmptyMap
    /\ file_names = {}
    /\ f = 0
    /\ p = 0
    /\ s = 0
    /\ todo = {}
    /\ file_subgraphs = EmptyMap

\* a single pass that resolves each event as soon as it is read
ProcessNodeEntryOnePass ==
    /\ pc = "nodes"
    /\ i <= Len(log_entries)
    /\ Become(EdgeEntry(NodeEntry(State, log_entries[i]), log_entries[i]))
    /\ i' = i + 1
    /\ UNCHANGED <<log_entries, pc, todo, file_subgraphs>>

ProcessNodeEntry ==
    /\ pc = "nodes"
    /\ i <= Len(log_entries)
    /\ Become(NodeEntry(State, log_entries[i]))
    /\ i' = i + 1
    /\ UNCHANGED <<log_entries, pc, todo, file_subgraphs>>

NodesDone ==
    /\ pc = "nodes"
    /\ i > Len(log_entries)
    /\ pc' = "edges"
    /\ i' = 1
    /\ UNCHANGED <<log_entries, nodes, edges, file_nodes, uuid2name,
                   file_names, f, p, s, todo, file_subgraphs>>

ProcessEdgeEntry ==
    /\ pc = "edges"
    /\ i <= Len(log_entries)
    /\ Become(EdgeEntry(State, log_entries[i]))
    /\ i' = i + 1
    /\ UNCHANGED <<log_entries, pc, todo, file_subgraphs>>

EdgesDone ==
    /\ pc = "edges"
    /\ i > Len(log_entries)
    /\ pc' = "subgraphs"
    /\ todo' = file_nodes
    /\ file_subgraphs' = EmptyMap
    /\ UNCHANGED <<log_entries, i, nodes, edges, file_nodes, uuid2name,
                   file_names, f, p, s>>

ExtractSubgraph ==
    /\ pc = "subgraphs"
    /\ \E file_node \in todo :
         /\ file_subgraphs' =
              Put(file_subgraphs, file_node,
                  BehaviorOf([node |-> nodes, edge |-> edges], file_node))
         /\ todo' = todo \ {file_node}
    /\ UNCHANGED <<log_entries, pc, i, nodes, edges, file_nodes, uuid2name,
                   file_names, f, p, s>>

Return ==
    /\ pc = "subgraphs"
    /\ todo = {}
    /\ pc' = "done"
    /\ UNCHANGED <<log_entries, i, nodes, edges, file_nodes, uuid2name,
                   file_names, f, p, s, todo, file_subgraphs>>

Next ==
    \/ ProcessNodeEntry
    \/ NodesDone
    \/ ProcessEdgeEntry
    \/ EdgesDone
    \/ ExtractSubgraph
    \/ Return

\* ------------------------------------------------------------- the inputs
SeqsUpTo(S, n) == UNION {[1..k -> S] : k \in 0..n}

FileEntries ==
    {FileObject(path, uuid) : path \in Names, uuid \in Ids \cup {Null, Absent}}
      \cup {FileObject(Absent, "u1")}
SubjectEntries ==
    {Subject(uuid, name) : uuid \in Ids, name \in Names}
      \cup {Subject(Absent, "a"), Subject("u1", Absent)}
NetFlowEntries ==
    {NetFlowObject(addr, uuid) : addr \in Names, uuid \in Ids \cup {Null, Absent}}
      \cup {NetFlowObject(Absent, "u1")}
EventEntries ==
    {Event(type, src, tgt) : type \in Syscalls,
                             src \in Ids \cup {Null}, tgt \in Ids \cup {Null}}

\* every entry over Names and Ids, the malformed ones included
Entries == FileEntries \cup SubjectEntries \cup NetFlowEntries
             \cup EventEntries \cup {Other}

Init == \E log \in SeqsUpTo(Entries, MaxLen) : Start(log)

Spec == Init /\ [][Next]_vars

\* no identifier is declared by two entries of the log
UniqueIds(log) ==
    \A j \in DOMAIN log : \A k \in DOMAIN log :
      (/\ j # k
       /\ log[j].tag \in {FileTag, SubjectTag, NetFlowTag}
       /\ log[k].tag \in {FileTag, SubjectTag, NetFlowTag}
       /\ log[j].uuid \notin {Absent, Null})
        => log[j].uuid # log[k].uuid

\* the entries that carry every field the code reads
WellFormedEntries ==
    {FileObject(path, uuid) : path \in Names, uuid \in WellIds}
      \cup {Subject(uuid, name) : uuid \in WellIds, name \in Names}
      \cup {NetFlowObject(addr, uuid) : addr \in Names, uuid \in WellIds}
      \cup {Event("read", src, tgt) : src \in WellIds, tgt \in WellIds}

\* the logs of such entries, in any order, each identifier declared once
InitWellFormed ==
    \E log \in SeqsUpTo(WellFormedEntries, MaxWellLen) :
        UniqueIds(log) /\ Start(log)

SpecWellFormed == InitWellFormed /\ [][Next]_vars

\* three entities with distinct names and identifiers, each declared as a
\* file, a process or a socket, and then events between them
ChainSlot(k) ==
    {FileObject(ChainNames[k], ChainIds[k]), Subject(ChainIds[k], ChainNames[k]),
     NetFlowObject(ChainNames[k], ChainIds[k])}
ChainEvents ==
    {Event(type, ChainIds[a], ChainIds[b]) :
        type \in Syscalls, a \in DOMAIN ChainIds, b \in DOMAIN ChainIds}

InitChain ==
    \E d1 \in ChainSlot(1), d2 \in ChainSlot(2), d3 \in ChainSlot(3),
       events \in SeqsUpTo(ChainEvents, MaxEvents) :
        Start(<<d1, d2, d3>> \o events)

SpecChain == InitChain /\ [][Next]_vars

\* ---------------------------------------------------------------- claims
Built == pc \in {"subgraphs", "done"}

IsResolved(entry) ==
    /\ entry.tag = EventTag
    /\ entry.subject \in DOMAIN uuid2name
    /\ entry.predicateObject \in DOMAIN uuid2name

ResolvedEvents == {k \in DOMAIN log_entries : IsResolved(log_entries[k])}

SubjectName(k) == uuid2name[log_entries[k].subject]
TargetName(k) == uuid2name[log_entries[k].predicateObject]

\* the nodes tagged file, i.e. the file-type nodes
FileTyped == {n \in DOMAIN nodes : nodes[n] = "file"}

\* C1: in a log that declares no identifier twice, once the edge pass is
\* over, every event whose two identifiers resolve
\* has its edge in the graph: from the target's node to the subject's node
\* when the target's node is tagged file, from the subject's node to the
\* target's node otherwise.
DirectionInference ==
    (Built /\ UniqueIds(log_entries)) =>
      \A k \in ResolvedEvents :
        IF TargetName(k) \in FileTyped
        THEN <<TargetName(k), SubjectName(k)>> \in DOMAIN edges
        ELSE <<SubjectName(k), TargetName(k)>> \in DOMAIN edges

\* the (source, target, label) triple the edge pass derives from event k
TripleOf(k) ==
    IF TargetName(k) \in file_names
    THEN <<TargetName(k), SubjectName(k), log_entries[k].type>>
    ELSE <<SubjectName(k), TargetName(k), log_entries[k].type>>

EdgeTriples == {<<e[1], e[2], edges[e]>> : e \in DOMAIN edges}

\* C2: once the edge pass is over, no edge has been overwritten: every
\* resolved event has left an edge that carries its own label, so that two
\* resolved events between the same ordered pair of nodes with different
\* labels have left two edges.
EdgesNotOverwritten ==
    Built => \A k \in ResolvedEvents : TripleOf(k) \in EdgeTriples

\* an entry of a known kind that lacks a field the code reads from it
IsMalformed(entry) ==
    \/ entry.tag \in {FileTag, NetFlowTag} /\ Absent \in {entry.name, entry.uuid}
    \/ entry.tag = SubjectTag /\ Absent \in {entry.name, entry.uuid}

RemoveAt(log, k) == [j \in 1..(Len(log) - 1) |-> IF j < k THEN log[j] ELSE log[j + 1]]

Returned ==
    [main_graph |-> [node |-> nodes, edge |-> edges],
     uuid2name |-> uuid2name,
     file_subgraphs |-> file_subgraphs]

\* C3: when the run is over, what it returns (graph, index, subgraphs) is
\* what the log without any one of its malformed entries would give.
MalformedSkippedWhole ==
    pc = "done" =>
      \A k \in DOMAIN log_entries :
        IsMalformed(log_entries[k]) =>
          Outcome(RemoveAt(log_entries, k)) = Returned

\* C4: when the run on a log that has no malformed entry and declares no
\* identifier twice is over,
\* what it returns is what every permutation of the log would give.
OrderIndependent ==
    (/\ pc = "done"
     /\ UniqueIds(log_entries)
     /\ \A k \in DOMAIN log_entries : ~IsMalformed(log_entries[k])) =>
      \A perm \in Permutations(DOMAIN log_entries) :
        Outcome([j \in DOMAIN log_entries |-> log_entries[perm[j]]]) = Returned

\* the pairs (n, m) with a directed path of one or more edges from n to m
RECURSIVE ClosureOver(_, _)
ClosureOver(R, ks) ==
    IF ks = {} THEN R
    ELSE LET k == CHOOSE x \in ks : TRUE
             via == {<<a, b>> \in (DOMAIN nodes) \X (DOMAIN nodes) :
                        <<a, k>> \in R /\ <<k, b>> \in R}
         IN  ClosureOver(R \cup via, ks \ {k})

Paths == ClosureOver(DOMAIN edges, DOMAIN nodes)

\* C5: the nodes of the subgraph of n are n and the nodes a directed path
\* leads to from n, whatever its length; without an edge out of n the
\* subgraph is n alone, with no edge.
ReachabilityCorrect ==
    \A n \in DOMAIN file_subgraphs :
      /\ DOMAIN file_subgraphs[n].node =
           {n} \cup {m \in DOMAIN nodes : <<n, m>> \in Paths}
      /\ (\A m \in DOMAIN nodes : <<n, m>> \notin DOMAIN edges) =>
           /\ DOMAIN file_subgraphs[n].node = {n}
           /\ DOMAIN file_subgraphs[n].edge = {}

\* a finished run with a subgraph that holds a node two or more hops away
\* from its file node
ReachabilityWitness ==
    /\ pc = "done"
    /\ \E n \in DOMAIN file_subgraphs :
         \E m \in DOMAIN file_subgraphs[n].node :
           m # n /\ <<n, m>> \notin DOMAIN edges

\* C6: when the run on a log that declares no identifier twice is over,
\* the nodes with a subgraph are the nodes tagged file.
SubgraphsForFileTyped ==
    (pc = "done" /\ UniqueIds(log_entries)) => DOMAIN file_subgraphs = FileTyped

\* C7: a subgraph holds every edge of the graph between two of its nodes,
\* with the label it has in the graph, and no other edge.
InducedSubgraph ==
    \A n \in DOMAIN file_subgraphs :
      LET sub == file_subgraphs[n] IN
      /\ \A e \in DOMAIN edges :
           (e[1] \in DOMAIN sub.node /\ e[2] \in DOMAIN sub.node) =>
             (e \in DOMAIN sub.edge /\ sub.edge[e] = edges[e])
      /\ \A e \in DOMAIN sub.edge :
           e \in DOMAIN edges /\ sub.edge[e] = edges[e]

\* a finished run with a subgraph that holds a self-loop, while an edge of
\* the graph lies outside it
InducedWitness ==
    /\ pc = "done"
    /\ \E n \in DOMAIN file_subgraphs :
         LET sub == file_subgraphs[n] IN
         /\ \E e \in DOMAIN sub.edge : e[1] = e[2]
         /\ \E e \in DOMAIN edges : e \notin DOMAIN sub.edge

IsDangling(entry) ==
    /\ entry.tag = EventTag
    /\ \/ entry.subject \notin DOMAIN uuid2name
       \/ entry.predicateObject \notin DOMAIN uuid2name

IsDeclared(entry) ==
    /\ entry.tag \in {FileTag, SubjectTag, NetFlowTag}
    /\ entry.name # Absent
    /\ entry.uuid # Absent

DeclaredNames ==
    {log_entries[k].name : k \in {j \in DOMAIN log_entries : IsDeclared(log_entries[j])}}

\* C9: once the node pass is over there are as many nodes as distinct names
\* among the declarations that were processed to the end, the index maps
\* into these nodes, and a resolved event has its edge between the nodes
\* its two identifiers are mapped to.
NameCollisionMerge ==
    pc # "nodes" =>
      /\ Cardinality(DOMAIN nodes) = Cardinality(DeclaredNames)
      /\ \A u \in DOMAIN uuid2name : uuid2name[u] \in DOMAIN nodes
      /\ Built =>
           \A k \in ResolvedEvents :
             \/ <<SubjectName(k), TargetName(k)>> \in DOMAIN edges
             \/ <<TargetName(k), SubjectName(k)>> \in DOMAIN edges

\* C10: there is no edge while the node pass runs; the edge pass starts
\* when the node pass has read the last entry; a step of the edge pass
\* leaves the nodes, their types, the index and the file nodes alone; and
\* every endpoint of an edge is a node the node pass has typed.
PassSeparation ==
    /\ [](pc = "nodes" => edges = EmptyMap)
    /\ [](\A e \in DOMAIN edges :
            /\ e[1] \in DOMAIN nodes /\ nodes[e[1]] # Absent
            /\ e[2] \in DOMAIN nodes /\ nodes[e[2]] # Absent)
    /\ [][/\ (pc = "nodes" /\ pc' # "nodes") =>
               (i > Len(log_entries) /\ pc' = "edges" /\ i' = 1)
          /\ pc = "edges" =>
               /\ nodes' = nodes
               /\ uuid2name' = uuid2name
               /\ file_nodes' = file_nodes
               /\ file_names' = file_names]_vars

\* the edge pass has added an edge for an event that stands in the log
\* before the declaration of its identifiers
PassSeparationWitness ==
    /\ pc = "edges"
    /\ edges # EmptyMap
    /\ \E k \in ResolvedEvents :
         \E j \in DOMAIN log_entries :
           /\ k < j /\ k < i
           /\ IsDeclared(log_entries[j])
           /\ log_entries[j].uuid = log_entries[k].subject

=============================================================================
